---------------------------- MODULE Spec2Model ----------------------------
(***************************************************************************)
(* pond: a serverless partition-parallel SQL aggregation engine.           *)
(*                                                                         *)
(*   pond-planner  : plan_and_execute = analyze_query ; execute_plan ;     *)
(*                   create_arrow_response                                 *)
(*   pond-duckling : function_handler = run the query ;                    *)
(*                   convert_to_arrow_ipc                                  *)
(*   pond-parser   : QueryWrapper (parse, tables, list_of_prefixes, ...)   *)
(*                                                                         *)
(* Each of the three is a separate program; a behaviour of Spec runs one   *)
(* of them (entry).  SpecPlan applies the pure function analyze_query to   *)
(* every query shape within the bounds.                                    *)
(***************************************************************************)
EXTENDS Integers, Sequences, FiniteSets, TLC

\* ------------------------------------------------------------------ bounds
\* FROM items, GROUP BY expressions and projection items of a query given
\* to analyze_query alone (SpecPlan)
MaxFrom == 2
MaxGroupBy == 2
MaxProjection == 2
\* the same three for the query of a whole request (Spec)
MaxRequestItems == 1
\* group-key values and aggregate values a worker can return
MaxKeys == 1
MaxValue == 2
\* record batches the embedded engine returns, and rows in one of them
MaxBatches == 2
MaxBatchRows == 1
\* joined relations of one FROM item of a QueryWrapper's statement
MaxJoins == 1
\* directories a listing can show; list_of_prefixes calls and replace calls
\* on one QueryWrapper
MaxPrefixes == 1
MaxCalls == 3
MaxReplace == 1

\* ------------------------------------------------------------------- state
VARIABLES
    entry,        \* the program that runs: "plan", "planner", "duckling" or "parser"
    pc,           \* where the running handler stands
    query,        \* planner: the request's query, as parsed
    plan_result,  \* planner: what analyze_query returned
    tasks,        \* planner: the spawned tasks, in dispatch order
    completed,    \* planner: the partitions whose call has completed, in completion order
    exec_result,  \* planner: what execute_plan returned
    response,     \* planner, duckling: the handler's response
    rbs,          \* duckling: the record batches the engine returned
    sql,          \* QueryWrapper.sql
    hashed,       \* QueryWrapper.hashed
    ast,          \* QueryWrapper.ast
    list_of_prefixes, \* QueryWrapper.list_of_prefixes
    ret,          \* parser: what the last method called returned
    lop_probes,   \* parser: listing queries run for list_of_prefixes calls
    lop_calls,    \* parser: what each list_of_prefixes call returned, in call order
    replaced      \* parser: replace calls made

planner_vars == <<query, plan_result, tasks, completed, exec_result>>
parser_vars == <<sql, hashed, ast, list_of_prefixes, ret, lop_probes, lop_calls, replaced>>
vars == <<entry, pc, planner_vars, response, rbs, parser_vars>>

\* ----------------------------------------------------------------- helpers
SeqsUpTo(S, n) == UNION {[1..k -> S] : k \in 0..n}

NonEmptySeqsUpTo(S, n) == UNION {[1..k -> S] : k \in 1..n}

\* ------------------------------------------------- sqlparser AST (planner)
\* TableWithJoins { relation, joins }
TableWithJoins(rel, js) == [relation |-> rel, joins |-> js]

\* the expressions a GROUP BY list holds: Expr::Identifier or anything else
GroupExprs ==
    { [kind |-> "Identifier", value |-> "region"],
      [kind |-> "Function",   value |-> "lower(region)"] }

\* the items a projection holds: SelectItem::UnnamedExpr(Expr::Function),
\* SelectItem::UnnamedExpr of another expression, SelectItem::ExprWithAlias
SelectItems ==
    { [item |-> "UnnamedExpr",   expr |-> "Function",   name |-> "COUNT"],
      [item |-> "UnnamedExpr",   expr |-> "Identifier", name |-> "region"],
      [item |-> "ExprWithAlias", expr |-> "Function",   name |-> "COUNT"] }

PlannerRelations == {"orders", "customers"}

NoGroupBy == [kind |-> "Expressions", exprs |-> << >>]

\* What Parser::parse_sql makes of a query text: a parse error, an empty
\* statement list, a statement that is no query, a query whose body is no
\* SELECT, or a SELECT with its from, group_by and projection.
Statement(k, f, g, p) == [kind |-> k, from |-> f, group_by |-> g, projection |-> p]

QueriesUpTo(nf, ng, np) ==
    { Statement(k, << >>, NoGroupBy, << >>) :
        k \in {"ParseError", "NoStatement", "NotQuery", "NotSelect"} }
    \cup
    { Statement("Select", f, g, p) :
        f \in SeqsUpTo({TableWithJoins(r, << >>) : r \in PlannerRelations}, nf),
        g \in {[kind |-> "All", exprs |-> << >>]}
              \cup {[kind |-> "Expressions", exprs |-> e] : e \in SeqsUpTo(GroupExprs, ng)},
        p \in NonEmptySeqsUpTo(SelectItems, np) }

Queries == QueriesUpTo(MaxFrom, MaxGroupBy, MaxProjection)

RequestQueries == QueriesUpTo(MaxRequestItems, MaxRequestItems, MaxRequestItems)

\* ------------------------------------------------------------ DistributedPlan
Partitions == <<"A", "B", "C", "D">>

DistributedPlan(t, g, a, ps) ==
    [table |-> t, group_column |-> g, agg_function |-> a, partitions |-> ps]

\* #[derive(Default)]
DefaultPlan == DistributedPlan("", "", "", << >>)

\* Result<DistributedPlan, Error>, or the panic of an index out of bounds
PlanOk(plan) == [tag |-> "Ok", plan |-> plan, err |-> ""]
PlanErr(msg) == [tag |-> "Err", plan |-> DefaultPlan, err |-> msg]
PlanPanic(msg) == [tag |-> "Panic", plan |-> DefaultPlan, err |-> msg]
NoPlanYet == [tag |-> "None", plan |-> DefaultPlan, err |-> ""]

\* from[0].relation.to_string()
table_name(from) == from[1].relation

\* group_column reading the last expression of the list, not the first
group_column_last(group_by) ==
    IF group_by.kind = "Expressions" /\ group_by.exprs /= << >>
    THEN IF group_by.exprs[Len(group_by.exprs)].kind = "Identifier"
         THEN [ok |-> TRUE, value |-> group_by.exprs[Len(group_by.exprs)].value]
         ELSE [ok |-> FALSE, value |-> "Unsupported GROUP BY expression"]
    ELSE IF group_by.kind = "All"
         THEN [ok |-> FALSE, value |-> "GROUP BY ALL is not supported"]
         ELSE [ok |-> FALSE, value |-> "GROUP BY clause is empty"]

\* match group_by { ... }: the group column, or the error returned
group_column(group_by) ==
    IF group_by.kind = "Expressions" /\ group_by.exprs /= << >>
    THEN IF group_by.exprs[1].kind = "Identifier"
         THEN [ok |-> TRUE, value |-> group_by.exprs[1].value]
         ELSE [ok |-> FALSE, value |-> "Unsupported GROUP BY expression"]
    ELSE IF group_by.kind = "All"
         THEN [ok |-> FALSE, value |-> "GROUP BY ALL is not supported"]
         ELSE [ok |-> FALSE, value |-> "GROUP BY clause is empty"]

\* if let SelectItem::UnnamedExpr(Expr::Function(func)) = &projection[0]
agg_function(projection) ==
    IF projection[1].item = "UnnamedExpr" /\ projection[1].expr = "Function"
    THEN [ok |-> TRUE, value |-> projection[1].name]
    ELSE [ok |-> FALSE, value |-> "Unsupported aggregation"]

analyze_query(q) ==
    IF q.kind = "ParseError" THEN PlanErr("SQL parse error")
    ELSE IF q.kind = "NoStatement" THEN PlanPanic("index out of bounds: ast[0]")
    ELSE IF q.kind = "NotQuery" THEN PlanErr("Unsupported statement type")
    ELSE IF q.kind = "NotSelect" THEN PlanErr("Unsupported query type")
    ELSE IF q.from = << >> THEN PlanPanic("index out of bounds: from[0]")
    ELSE LET g == group_column(q.group_by)
             a == agg_function(q.projection)
         IN  IF ~g.ok THEN PlanErr(g.value)
             ELSE IF ~a.ok THEN PlanErr(a.value)
             ELSE PlanOk(DistributedPlan(table_name(q.from), g.value, a.value, Partitions))

\* ------------------------------------------------- remote worker responses
\* A JSON object as serde_json holds it: a map from key to value, iterated in
\* key order.  Keys 1..MaxKeys stand for the key strings in that order.
JsonObjects == UNION {[D -> 1..MaxValue] : D \in SUBSET (1..MaxKeys)}

\* InvokeOutput.payload: Option<Blob>; the blob is no JSON, JSON that is no
\* object, or a JSON object
NoPayload == [kind |-> "None", obj |-> << >>]
Payloads ==
    { NoPayload, [kind |-> "Invalid", obj |-> << >>], [kind |-> "NotObject", obj |-> << >>] }
    \cup { [kind |-> "Object", obj |-> o] : o \in JsonObjects }

\* What awaiting a spawned task yields: Err(JoinError), Ok(Err(SdkError)) or
\* Ok(Ok(InvokeOutput))
Pending == [kind |-> "Pending", payload |-> NoPayload]
Outcomes ==
    { [kind |-> "JoinErr", payload |-> NoPayload],
      [kind |-> "InvokeErr", payload |-> NoPayload] }
    \cup { [kind |-> "Ok", payload |-> p] : p \in Payloads }

RECURSIVE SortedKeys(_)
SortedKeys(D) ==
    IF D = {} THEN << >>
    ELSE LET k == CHOOSE x \in D : \A y \in D : x <= y
         IN  <<k>> \o SortedKeys(D \ {k})

\* push_entries adding a value to the row its key already has
push_entries_merged(final_result, obj) ==
    LET held == {final_result[r][1] : r \in 1..Len(final_result)}
        fresh == SortedKeys(DOMAIN obj \ held)
    IN  [r \in 1..Len(final_result) |->
            IF final_result[r][1] \in DOMAIN obj
            THEN <<final_result[r][1], final_result[r][2] + obj[final_result[r][1]]>>
            ELSE final_result[r]]
        \o [i \in 1..Len(fresh) |-> <<fresh[i], obj[fresh[i]]>>]

\* for (key, value) in partial.as_object().unwrap() { final_result.push(..) }
push_entries(final_result, obj) ==
    LET ks == SortedKeys(DOMAIN obj)
    IN  final_result \o [i \in 1..Len(ks) |-> <<ks[i], obj[ks[i]]>>]

\* Result<Vec<(String, i64)>, Error>, or the panic of unwrap() on None
ExecOk(rows) == [tag |-> "Ok", rows |-> rows, err |-> ""]
ExecErr(msg) == [tag |-> "Err", rows |-> << >>, err |-> msg]
ExecPanic(msg) == [tag |-> "Panic", rows |-> << >>, err |-> msg]
NoExecYet == [tag |-> "None", rows |-> << >>, err |-> ""]

\* for result in results { match result { ... } }  Ok(final_result)
RECURSIVE gather(_, _, _)
gather(results, i, final_result) ==
    IF i > Len(results) THEN ExecOk(final_result)
    ELSE LET result == results[i]
         IN  CASE result.kind = "Ok" ->
                    ( CASE result.payload.kind = "None" -> gather(results, i + 1, final_result)
                        [] result.payload.kind = "Invalid" -> ExecErr("JSON decode error")
                        [] result.payload.kind = "NotObject" ->
                               ExecPanic("called Option::unwrap() on a None value")
                        [] OTHER ->
                               gather(results, i + 1,
                                      push_entries(final_result, result.payload.obj)) )
               [] result.kind = "InvokeErr" -> ExecErr("Lambda invocation error")
               [] OTHER -> ExecErr("Task join error")

\* join_all giving the outputs in the order in which the tasks completed
join_all_as_completed(ts) ==
    [n \in 1..Len(ts) |->
        ts[CHOOSE i \in 1..Len(ts) : ts[i].partition = completed[n]].out]

\* join_all(tasks).await: the outputs in the order of the tasks
join_all(ts) == [i \in 1..Len(ts) |-> ts[i].out]

\* join_all resolving as soon as one task has failed
join_all_ready_on_failure(ts) ==
    \/ \A i \in 1..Len(ts) : ts[i].out /= Pending
    \/ \E i \in 1..Len(ts) : ts[i].out.kind \in {"JoinErr", "InvokeErr"}

\* join_all(tasks).await resolves when every task has an output
join_all_ready(ts) == \A i \in 1..Len(ts) : ts[i].out /= Pending

\* ----------------------------------------------------------- Arrow IPC stream
CategoryCountSchema ==
    << [name |-> "category", type |-> "Utf8",  nullable |-> FALSE],
       [name |-> "count",    type |-> "Int64", nullable |-> FALSE] >>

\* the schema of the batches the embedded engine returns for a statement
EngineSchema == << [name |-> "c0", type |-> "Utf8", nullable |-> TRUE] >>

SchemaMessage(schema) == [msg |-> "schema", fields |-> schema, rows |-> << >>]
BatchMessage(batch) == [msg |-> "batch", fields |-> batch.fields, rows |-> batch.rows]
EndOfStream == [msg |-> "eos", fields |-> << >>, rows |-> << >>]

\* finish writing no end-of-stream marker
StreamWriter_finish_unmarked(buffer) == buffer

\* StreamWriter::try_new, write, finish
StreamWriter_try_new(schema) == <<SchemaMessage(schema)>>
StreamWriter_write(buffer, batch) == Append(buffer, BatchMessage(batch))
StreamWriter_finish(buffer) == Append(buffer, EndOfStream)

\* RecordBatch::try_new(schema, columns): one column per field, all of one length
RecordBatch_try_new(schema, columns) ==
    IF Len(columns) /= Len(schema)
       \/ \E i, j \in 1..Len(columns) : Len(columns[i]) /= Len(columns[j])
    THEN [ok |-> FALSE, fields |-> schema, rows |-> << >>]
    ELSE [ok |-> TRUE, fields |-> schema,
          rows |-> [r \in 1..Len(columns[1]) |-> [c \in 1..Len(columns) |-> columns[c][r]]]]

\* ArrowIpcResponse, or the error or panic that ends the handler instead
Response(code, body) ==
    [tag |-> "Ok", status_code |-> code,
     content_type |-> "application/vnd.apache.arrow.stream", body |-> body]
ResponseErr(msg) == [tag |-> "Err", status_code |-> 0, content_type |-> msg, body |-> << >>]
ResponsePanic(msg) == [tag |-> "Panic", status_code |-> 0, content_type |-> msg, body |-> << >>]
NoResponse == [tag |-> "None", status_code |-> 0, content_type |-> "", body |-> << >>]

\* create_arrow_response refusing a result without rows
create_arrow_response_nonempty(results) ==
    IF results = << >> THEN ResponseErr("no rows to derive the schema from")
    ELSE Response(200,
             <<SchemaMessage(CategoryCountSchema),
               [msg |-> "batch", fields |-> CategoryCountSchema,
                rows |-> [r \in 1..Len(results) |-> <<results[r][1], results[r][2]>>]],
               EndOfStream>>)

create_arrow_response(results) ==
    LET categories == [i \in 1..Len(results) |-> results[i][1]]
        counts == [i \in 1..Len(results) |-> results[i][2]]
        batch == RecordBatch_try_new(CategoryCountSchema, <<categories, counts>>)
    IN  IF ~batch.ok THEN ResponseErr("Arrow error")
        ELSE Response(200,
                 StreamWriter_finish(
                     StreamWriter_write(StreamWriter_try_new(CategoryCountSchema), batch)))

\* ------------------------------------------------------------ pond-duckling
\* the RecordBatches stmt.query_arrow([]) yields: all of the statement's schema
EngineBatches ==
    { [ok |-> TRUE, fields |-> EngineSchema, rows |-> [r \in 1..n |-> <<r>>]] :
        n \in 0..MaxBatchRows }

\* for batch in rbs { writer.write(batch)?; }
RECURSIVE write_batches(_, _, _)
write_batches(buffer, rbs_, i) ==
    IF i > Len(rbs_) THEN buffer
    ELSE write_batches(StreamWriter_write(buffer, rbs_[i]), rbs_, i + 1)

\* Result<Vec<u8>, Error>, or the panic of rbs[0] on an empty slice
convert_to_arrow_ipc(rbs_) ==
    IF rbs_ = << >> THEN [tag |-> "Panic", body |-> << >>]
    ELSE [tag |-> "Ok",
          body |-> StreamWriter_finish(
                       write_batches(StreamWriter_try_new(rbs_[1].fields), rbs_, 1))]

\* -------------------------------------------------------------- pond-parser
\* TableFactor: a table (its ObjectName's parts) or a derived subquery; text
\* is what to_string() gives
TableFactors ==
    { [kind |-> "Table",   name |-> <<"orders">>, text |-> "orders"],
      [kind |-> "Table",   name |-> <<"s3://bucket1/orders.parquet">>,
                           text |-> "'s3://bucket1/orders.parquet'"],
      [kind |-> "Table",   name |-> <<"s3://bucket2/customers.parquet">>,
                           text |-> "'s3://bucket2/customers.parquet'"],
      [kind |-> "Derived", name |-> << >>, text |-> "(SELECT id FROM users) AS active_users"] }

\* Join { relation, join_operator }
Joins == { [relation |-> t, join_operator |-> "Inner"] : t \in TableFactors }

\* The statement a QueryWrapper holds (ast[0] of a text that parsed to at
\* least one statement): a SELECT with its FROM items, a query whose body is
\* no SELECT, or a statement that is no query.
Asts ==
    { Statement(k, << >>, NoGroupBy, << >>) : k \in {"NotQuery", "NotSelect"} }
    \cup
    { Statement("Select", f, NoGroupBy, << >>) :
        f \in SeqsUpTo({TableWithJoins(t, js) :
                            t \in TableFactors, js \in SeqsUpTo(Joins, MaxJoins)}, MaxFrom) }

\* for join in joins { tables.push(&join.relation); }
RECURSIVE push_joins(_, _, _)
push_joins(tables_, joins, j) ==
    IF j > Len(joins) THEN tables_
    ELSE push_joins(Append(tables_, joins[j].relation), joins, j + 1)

\* push_from pushing the joined relations ahead of the FROM relation
RECURSIVE push_from_joins_first(_, _, _)
push_from_joins_first(tables_, from, i) ==
    IF i > Len(from) THEN tables_
    ELSE push_from_joins_first(
             Append(push_joins(tables_, from[i].joins, 1), from[i].relation), from, i + 1)

\* for TableWithJoins { relation, joins } in &select.from { ... }
RECURSIVE push_from(_, _, _)
push_from(tables_, from, i) ==
    IF i > Len(from) THEN tables_
    ELSE push_from(push_joins(Append(tables_, from[i].relation), from[i].joins, 1),
                   from, i + 1)

tables(ast_) == IF ast_.kind = "Select" THEN push_from(<< >>, ast_.from, 1) ELSE << >>

\* Option<T>
None == [some |-> FALSE, value |-> << >>]
Some(v) == [some |-> TRUE, value |-> v]

\* Table references as bucket() reads them: those of TableFactors, a bucket
\* named with a dot, and the table function of test_query_bucket
BucketTableFactors ==
    TableFactors \cup
    { [kind |-> "Table", name |-> <<"s3://my.bucket/data.parquet">>,
                         text |-> "'s3://my.bucket/data.parquet'"],
      [kind |-> "Table", name |-> <<"READ_PARQUET">>,
                         text |-> "READ_PARQUET('s3://my-bucket/data/*.parquet')"] }

BucketJoins == { [relation |-> t, join_operator |-> "Inner"] : t \in BucketTableFactors }

\* The statements bucket() is called on
BucketAsts ==
    { Statement(k, << >>, NoGroupBy, << >>) : k \in {"NotQuery", "NotSelect"} }
    \cup
    { Statement("Select", f, NoGroupBy, << >>) :
        f \in SeqsUpTo({TableWithJoins(t, js) :
                            t \in BucketTableFactors, js \in SeqsUpTo(BucketJoins, MaxJoins)},
                       MaxFrom) }

\* The characters of table.to_string(), cut where a character of the class
\* [A-Za-z0-9_-] meets one outside it: a lexeme is a longest run of characters
\* of the class, or the characters between two such runs
to_string(table) ==
    CASE table.text = "orders" -> <<"orders">>
      [] table.text = "'s3://bucket1/orders.parquet'" ->
             <<"'", "s3", "://", "bucket1", "/", "orders", ".", "parquet", "'">>
      [] table.text = "'s3://bucket2/customers.parquet'" ->
             <<"'", "s3", "://", "bucket2", "/", "customers", ".", "parquet", "'">>
      [] table.text = "'s3://my.bucket/data.parquet'" ->
             <<"'", "s3", "://", "my", ".", "bucket", "/", "data", ".", "parquet", "'">>
      [] table.text = "READ_PARQUET('s3://my-bucket/data/*.parquet')" ->
             <<"READ_PARQUET", "('", "s3", "://", "my-bucket", "/", "data", "/*.",
               "parquet", "')">>
      [] OTHER -> <<"(", "SELECT", " ", "id", " ", "FROM", " ", "users", ") ", "AS", " ",
                    "active_users">>

\* the lexemes that are no run of [A-Za-z0-9_-]
NotInClass == {"'", "://", "/", ".", "/*.", "('", "')", "(", ") ", " "}

\* BUCKET_RE.captures(text) for s3://([A-Za-z0-9_-]+): the leftmost place where
\* a run ends in s3, :// follows and a run of the class follows that; group 1 is
\* that run
RECURSIVE BUCKET_RE_captures(_, _)
BUCKET_RE_captures(text, i) ==
    IF i + 2 > Len(text) THEN None
    ELSE IF text[i] = "s3" /\ text[i + 1] = "://" /\ text[i + 2] \notin NotInClass
         THEN Some(text[i + 2])
         ELSE BUCKET_RE_captures(text, i + 1)

\* for table in self.tables() { if let Some(captures) = ... { return Ok(..) } }
RECURSIVE first_bucket(_, _)
first_bucket(ts, i) ==
    IF i > Len(ts)
    THEN [ok |-> FALSE,
          value |-> <<"Invalid filesystem: Not able to locate any bucket name in query">>]
    ELSE LET captures == BUCKET_RE_captures(to_string(ts[i]), 1)
         IN  IF captures.some THEN [ok |-> TRUE, value |-> <<"s3://", captures.value>>]
             ELSE first_bucket(ts, i + 1)

\* pub fn bucket(&self)
bucket(ast_) == first_bucket(tables(ast_), 1)

\* the lexemes that hold a single quote, and those that end in a dot
Quotes == {"'", "('", "')"}
EndsInDot == {".", "/*."}

\* the place of the first single quote at or after i, Len(text) + 1 if none
RECURSIVE next_quote(_, _)
next_quote(text, i) ==
    IF i > Len(text) THEN Len(text) + 1
    ELSE IF text[i] \in Quotes THEN i ELSE next_quote(text, i + 1)

\* PARQUET_RE.captures_iter(text) for '([^']+\.parquet)': group 1 of every
\* match, left to right
RECURSIVE PARQUET_RE_captures_iter(_, _)
PARQUET_RE_captures_iter(text, i) ==
    LET open == next_quote(text, i)
        close == next_quote(text, open + 1)
    IN  IF close > Len(text) THEN << >>
        ELSE IF /\ close - open >= 3
                /\ text[close - 1] = "parquet"
                /\ text[close - 2] \in EndsInDot
                /\ (close - open >= 4 \/ text[close - 2] /= ".")
             THEN <<SubSeq(text, open + 1, close - 1)>>
                      \o PARQUET_RE_captures_iter(text, close + 1)
             ELSE PARQUET_RE_captures_iter(text, close)

\* for table in self.tables() { for cap in ... { files.push(..) } }
RECURSIVE push_files(_, _, _)
push_files(files, ts, i) ==
    IF i > Len(ts) THEN files
    ELSE push_files(files \o PARQUET_RE_captures_iter(to_string(ts[i]), 1), ts, i + 1)

\* pub fn parquet_files(&self)
parquet_files(ast_) == push_files(<< >>, tables(ast_), 1)

\* QueryAnalysis, of which a statement of these has tables and joins only
QueryAnalysis(tables_, joins) == [tables |-> tables_, joins |-> joins]

\* fn analyze_from: the relation's and the joined relations' texts, and the
\* join operators
RECURSIVE analyze_joins(_, _, _)
analyze_joins(analysis, joins, j) ==
    IF j > Len(joins) THEN analysis
    ELSE analyze_joins(
             QueryAnalysis(analysis.tables \cup {joins[j].relation.text},
                           Append(analysis.joins, joins[j].join_operator)),
             joins, j + 1)

analyze_from(table_with_joins, analysis) ==
    analyze_joins(QueryAnalysis(analysis.tables \cup {table_with_joins.relation.text},
                                analysis.joins),
                  table_with_joins.joins, 1)

\* fn analyze_select: for table_with_joins in &select.from { .. }
RECURSIVE analyze_select(_, _, _)
analyze_select(from, i, analysis) ==
    IF i > Len(from) THEN analysis
    ELSE analyze_select(from, i + 1, analyze_from(from[i], analysis))

\* pub fn analyze(&self)
analyze(ast_) ==
    IF ast_.kind = "Select" THEN analyze_select(ast_.from, 1, QueryAnalysis({}, << >>))
    ELSE QueryAnalysis({}, << >>)

\* Result<..., QueryError> of a QueryWrapper method, with the method's name
Ret(op, tag, value) == [op |-> op, tag |-> tag, value |-> value]
NoRet == Ret("none", "None", << >>)

\* the first table of tables() that is a Table with a one-part name
RECURSIVE first_source(_, _)
first_source(ts, i) ==
    IF i > Len(ts) THEN [ok |-> FALSE, value |-> "No source found in query"]
    ELSE IF ts[i].kind = "Table" /\ Len(ts[i].name) = 1
         THEN [ok |-> TRUE, value |-> ts[i].name[1]]
         ELSE first_source(ts, i + 1)

source(ast_) == first_source(tables(ast_), 1)

\* What the listing query over GLOB(source) shows: DISTINCT prefixes, so no
\* prefix twice.  Prefix i stands for the i-th directory under the source.
PrefixLists ==
    { l \in SeqsUpTo(1..MaxPrefixes, MaxPrefixes) :
        \A i, j \in 1..Len(l) : i /= j => l[i] /= l[j] }

\* What scan_source_for_prefixes meets outside the QueryWrapper: the context
\* does not open or load httpfs, the listing query fails, or it lists
ProbeOutcomes ==
    { [kind |-> "ConnErr", list |-> << >>], [kind |-> "ListErr", list |-> << >>] }
    \cup { [kind |-> "Listed", list |-> l] : l \in PrefixLists }

\* scan_source_for_prefixes: its result, and whether the listing query ran
scan_source_for_prefixes(ast_, env) ==
    IF env.kind = "ConnErr" THEN [ok |-> FALSE, probed |-> FALSE, list |-> << >>]
    ELSE IF ~source(ast_).ok THEN [ok |-> FALSE, probed |-> FALSE, list |-> << >>]
    ELSE IF env.kind = "ListErr" THEN [ok |-> FALSE, probed |-> TRUE, list |-> << >>]
    ELSE [ok |-> TRUE, probed |-> TRUE, list |-> env.list]

\* is_none finding the cache empty every time
is_none_always(opt) == TRUE
is_none(opt) == ~opt.some

\* to_string() of the statement, token by token
RECURSIVE render_joins(_, _)
render_joins(joins, j) ==
    IF j > Len(joins) THEN << >>
    ELSE <<"JOIN", joins[j].relation.text>> \o render_joins(joins, j + 1)

RECURSIVE render_from(_, _)
render_from(from, i) ==
    IF i > Len(from) THEN << >>
    ELSE (IF i > 1 THEN <<",">> ELSE <<"FROM">>)
         \o <<from[i].relation.text>> \o render_joins(from[i].joins, 1)
         \o render_from(from, i + 1)

\* the text that parses to the statement
query_text(ast_) ==
    CASE ast_.kind = "NotQuery" -> <<"CREATE", "TABLE", "t">>
      [] ast_.kind = "NotSelect" -> <<"VALUES", "(1)">>
      [] OTHER -> <<"SELECT", "*">> \o render_from(ast_.from, 1)

\* Parser::parse_sql on the text of a statement, token by token: the FROM
\* items are set apart by commas, each a relation and its JOINs
RECURSIVE parse_from(_, _, _)
parse_from(text, i, from) ==
    IF i + 1 > Len(text) THEN from
    ELSE LET relation ==
                 IF \E t \in BucketTableFactors : t.text = text[i + 1]
                 THEN CHOOSE t \in BucketTableFactors : t.text = text[i + 1]
                 ELSE [kind |-> "Table", name |-> <<text[i + 1]>>, text |-> text[i + 1]]
         IN  IF text[i] = "JOIN"
             THEN parse_from(text, i + 2,
                      [from EXCEPT ![Len(from)].joins =
                           Append(@, [relation |-> relation, join_operator |-> "Inner"])])
             ELSE parse_from(text, i + 2, Append(from, TableWithJoins(relation, << >>)))

parse_sql(text) ==
    CASE text[1] = "CREATE" -> Statement("NotQuery", << >>, NoGroupBy, << >>)
      [] text[1] = "VALUES" -> Statement("NotSelect", << >>, NoGroupBy, << >>)
      [] OTHER -> Statement("Select", parse_from(text, 3, << >>), NoGroupBy, << >>)

\* fn unify_query(query): the query as it is
unify_query(text) == text

\* fn create_hash_string(s): the SHA-256 of the text in hex; one digest per text
create_hash_string(text) == <<"sha256">> \o text

\* str::replace(old, new), on tokens
str_replace(text, old, new) ==
    [i \in 1..Len(text) |-> IF text[i] = old THEN new ELSE text[i]]

\* the arguments replace is called with here: a token of the text or a
\* placeholder it does not hold, and the token put in its place
ReplaceOld == {"orders", "$table"}
ReplaceNew == {"customers"}

\* ----------------------------------------------------------- initial values
NoQuery == Statement("ParseError", << >>, NoGroupBy, << >>)
NoAst == Statement("NotQuery", << >>, NoGroupBy, << >>)

NoPlanner ==
    /\ query = NoQuery
    /\ plan_result = NoPlanYet
    /\ tasks = << >>
    /\ completed = << >>
    /\ exec_result = NoExecYet

NoParser ==
    /\ sql = << >>
    /\ hashed = << >>
    /\ ast = NoAst
    /\ list_of_prefixes = None
    /\ ret = NoRet
    /\ lop_probes = 0
    /\ lop_calls = << >>
    /\ replaced = 0

\* ------------------------------------------------------ analyze_query alone
InitPlan ==
    /\ entry = "plan"
    /\ pc = "Received"
    /\ query \in Queries
    /\ plan_result = NoPlanYet
    /\ tasks = << >>
    /\ completed = << >>
    /\ exec_result = NoExecYet
    /\ response = NoResponse
    /\ rbs = << >>
    /\ NoParser

\* let plan = self.analyze_query(query)?;
AnalyzeQuery ==
    /\ entry \in {"plan", "planner"}
    /\ pc = "Received"
    /\ plan_result' = analyze_query(query)
    /\ pc' = CASE plan_result'.tag = "Ok" -> "Planned"
               [] plan_result'.tag = "Err" -> "Failed"
               [] OTHER -> "Panicked"
    /\ UNCHANGED <<entry, query, tasks, completed, exec_result, response, rbs, parser_vars>>

NextPlan == AnalyzeQuery

SpecPlan == InitPlan /\ [][NextPlan]_vars

\* ------------------------------------------------------------- bucket alone
InitBucket ==
    /\ entry = "bucket"
    /\ pc = "Parsed"
    /\ NoPlanner
    /\ response = NoResponse
    /\ rbs = << >>
    /\ ast \in BucketAsts
    /\ sql = unify_query(query_text(ast))
    /\ hashed = create_hash_string(unify_query(query_text(ast)))
    /\ list_of_prefixes = None
    /\ ret = NoRet
    /\ lop_probes = 0
    /\ lop_calls = << >>
    /\ replaced = 0

\* ------------------------------------------------------- plan_and_execute
InitPlanner ==
    /\ entry = "planner"
    /\ pc = "Received"
    /\ query \in RequestQueries
    /\ plan_result = NoPlanYet
    /\ tasks = << >>
    /\ completed = << >>
    /\ exec_result = NoExecYet
    /\ response = NoResponse
    /\ rbs = << >>
    /\ NoParser

\* the loop spawning the partition of a failed task again
Spawn_retry ==
    /\ entry = "planner"
    /\ pc = "Planned"
    /\ Len(tasks) < Len(plan_result.plan.partitions)
    /\ LET n == IF tasks /= << >> /\ tasks[Len(tasks)].out.kind \in {"JoinErr", "InvokeErr"}
                THEN Len(tasks) ELSE Len(tasks) + 1
       IN  tasks' = Append(tasks,
                      [partition |-> plan_result.plan.partitions[n],
                       table |-> plan_result.plan.table,
                       group_column |-> plan_result.plan.group_column,
                       agg_function |-> plan_result.plan.agg_function,
                       out |-> Pending])
    /\ pc' = IF Len(tasks') = Len(plan_result.plan.partitions) THEN "Gathering" ELSE "Planned"
    /\ UNCHANGED <<entry, query, plan_result, completed, exec_result, response, rbs, parser_vars>>

\* one turn of `for partition in plan.partitions`: tasks.push(tokio::spawn(..))
Spawn ==
    /\ entry = "planner"
    /\ pc = "Planned"
    /\ Len(tasks) < Len(plan_result.plan.partitions)
    /\ tasks' = Append(tasks,
                   [partition |-> plan_result.plan.partitions[Len(tasks) + 1],
                    table |-> plan_result.plan.table,
                    group_column |-> plan_result.plan.group_column,
                    agg_function |-> plan_result.plan.agg_function,
                    out |-> Pending])
    /\ pc' = IF Len(tasks') = Len(plan_result.plan.partitions) THEN "Gathering" ELSE "Planned"
    /\ UNCHANGED <<entry, query, plan_result, completed, exec_result, response, rbs, parser_vars>>

\* a spawned task ends: req.send().await returned, or the task was lost
Complete(i) ==
    /\ entry = "planner"
    /\ i \in 1..Len(tasks)
    /\ tasks[i].out = Pending
    /\ \E o \in Outcomes : tasks' = [tasks EXCEPT ![i].out = o]
    /\ completed' = Append(completed, tasks[i].partition)
    /\ UNCHANGED <<entry, pc, query, plan_result, exec_result, response, rbs, parser_vars>>

\* join_all(tasks).await returns; the loop over its results runs to its end
Gather ==
    /\ entry = "planner"
    /\ pc = "Gathering"
    /\ join_all_ready(tasks)
    /\ exec_result' = gather(join_all(tasks), 1, << >>)
    /\ pc' = CASE exec_result'.tag = "Ok" -> "Merged"
               [] exec_result'.tag = "Err" -> "Failed"
               [] OTHER -> "Panicked"
    /\ UNCHANGED <<entry, query, plan_result, tasks, completed, response, rbs, parser_vars>>

\* self.create_arrow_response(results)
CreateArrowResponse ==
    /\ entry = "planner"
    /\ pc = "Merged"
    /\ response' = create_arrow_response(exec_result.rows)
    /\ pc' = IF response'.tag = "Ok" THEN "Responded" ELSE "Failed"
    /\ UNCHANGED <<entry, planner_vars, rbs, parser_vars>>

\* plan_and_execute alone
NextPlanner ==
    \/ AnalyzeQuery
    \/ Spawn
    \/ \E i \in 1..Len(Partitions) : Complete(i)
    \/ Gather
    \/ CreateArrowResponse

SpecPlanner == InitPlanner /\ [][NextPlanner]_vars

\* ------------------------------------------- pond-duckling function_handler
InitDuckling ==
    /\ entry = "duckling"
    /\ pc = "Received"
    /\ NoPlanner
    /\ response = NoResponse
    /\ rbs = << >>
    /\ NoParser

\* Connection::open_in_memory()?, conn.prepare(&query)?, stmt.query_arrow([])?
\* .collect(): an error of the engine, or its record batches
RunQuery ==
    /\ entry = "duckling"
    /\ pc = "Received"
    /\ \/ /\ pc' = "Failed"
          /\ response' = ResponseErr("DuckDB error")
          /\ rbs' = rbs
       \/ /\ pc' = "Queried"
          /\ response' = response
          /\ rbs' \in SeqsUpTo(EngineBatches, MaxBatches)
    /\ UNCHANGED <<entry, planner_vars, parser_vars>>

\* convert_to_arrow_ipc(&rbs)? and the response of status 200
ConvertToArrowIpc ==
    /\ entry = "duckling"
    /\ pc = "Queried"
    /\ LET data == convert_to_arrow_ipc(rbs)
       IN  IF data.tag = "Ok"
           THEN response' = Response(200, data.body) /\ pc' = "Responded"
           ELSE response' = ResponsePanic("index out of bounds: rbs[0]") /\ pc' = "Panicked"
    /\ UNCHANGED <<entry, planner_vars, rbs, parser_vars>>

\* -------------------------------------------------- pond-parser QueryWrapper
\* QueryWrapper::parse(query) returned Ok(Self { .. })
InitParser ==
    /\ entry = "parser"
    /\ pc = "Parsed"
    /\ NoPlanner
    /\ response = NoResponse
    /\ rbs = << >>
    /\ ast \in Asts
    /\ sql = unify_query(query_text(ast))
    /\ hashed = create_hash_string(unify_query(query_text(ast)))
    /\ list_of_prefixes = None
    /\ ret = NoRet
    /\ lop_probes = 0
    /\ lop_calls = << >>
    /\ replaced = 0

\* pub fn list_of_prefixes(&mut self)
ListOfPrefixes ==
    /\ entry = "parser"
    /\ Len(lop_calls) < MaxCalls
    /\ IF is_none(list_of_prefixes)
       THEN \E env \in ProbeOutcomes :
              LET scan == scan_source_for_prefixes(ast, env)
              IN  /\ lop_probes' = IF scan.probed THEN lop_probes + 1 ELSE lop_probes
                  /\ list_of_prefixes' = IF scan.ok THEN Some(scan.list) ELSE None
                  /\ ret' = Ret("list_of_prefixes", IF scan.ok THEN "Ok" ELSE "Err", scan.list)
       ELSE /\ ret' = Ret("list_of_prefixes", "Ok", list_of_prefixes.value)
            /\ UNCHANGED <<list_of_prefixes, lop_probes>>
    /\ lop_calls' = Append(lop_calls, ret')
    /\ UNCHANGED <<entry, pc, planner_vars, response, rbs, sql, hashed, ast, replaced>>

\* pub fn scan_source_for_prefixes(&self), called from outside
ScanSourceForPrefixes ==
    /\ entry = "parser"
    /\ \E env \in ProbeOutcomes :
         LET scan == scan_source_for_prefixes(ast, env)
         IN  ret' = Ret("scan_source_for_prefixes", IF scan.ok THEN "Ok" ELSE "Err", scan.list)
    /\ UNCHANGED <<entry, pc, planner_vars, response, rbs, sql, hashed, ast,
                   list_of_prefixes, lop_probes, lop_calls, replaced>>

\* pub fn tables(&self)
Tables ==
    /\ entry = "parser"
    /\ ret' = Ret("tables", "Ok", tables(ast))
    /\ UNCHANGED <<entry, pc, planner_vars, response, rbs, sql, hashed, ast,
                   list_of_prefixes, lop_probes, lop_calls, replaced>>

\* pub fn source(&self)
Source ==
    /\ entry = "parser"
    /\ ret' = Ret("source", IF source(ast).ok THEN "Ok" ELSE "Err", <<source(ast).value>>)
    /\ UNCHANGED <<entry, pc, planner_vars, response, rbs, sql, hashed, ast,
                   list_of_prefixes, lop_probes, lop_calls, replaced>>

\* pub fn bucket(&self)
Bucket ==
    /\ entry \in {"parser", "bucket"}
    /\ ret' = Ret("bucket", IF bucket(ast).ok THEN "Ok" ELSE "Err", bucket(ast).value)
    /\ UNCHANGED <<entry, pc, planner_vars, response, rbs, sql, hashed, ast,
                   list_of_prefixes, lop_probes, lop_calls, replaced>>

\* pub fn parquet_files(&self)
ParquetFiles ==
    /\ entry = "parser"
    /\ ret' = Ret("parquet_files", "Ok", parquet_files(ast))
    /\ UNCHANGED <<entry, pc, planner_vars, response, rbs, sql, hashed, ast,
                   list_of_prefixes, lop_probes, lop_calls, replaced>>

\* pub fn analyze(&self)
Analyze ==
    /\ entry = "parser"
    /\ ret' = Ret("analyze", "Ok", analyze(ast))
    /\ UNCHANGED <<entry, pc, planner_vars, response, rbs, sql, hashed, ast,
                   list_of_prefixes, lop_probes, lop_calls, replaced>>

\* replace hashing and parsing the new text
Replace_reparsed(old, new) ==
    /\ entry = "parser"
    /\ replaced < MaxReplace
    /\ sql' = str_replace(sql, old, new)
    /\ hashed' = create_hash_string(sql')
    /\ replaced' = replaced + 1
    /\ UNCHANGED <<entry, pc, planner_vars, response, rbs, ast,
                   list_of_prefixes, ret, lop_probes, lop_calls>>

\* pub fn replace(&mut self, old, new)
Replace(old, new) ==
    /\ entry = "parser"
    /\ replaced < MaxReplace
    /\ sql' = str_replace(sql, old, new)
    /\ replaced' = replaced + 1
    /\ UNCHANGED <<entry, pc, planner_vars, response, rbs, hashed, ast,
                   list_of_prefixes, ret, lop_probes, lop_calls>>

NextBucket == Bucket

SpecBucket == InitBucket /\ [][NextBucket]_vars

\* ----------------------------------------------------------- specification
Init == InitPlanner \/ InitDuckling \/ InitParser

Next ==
    \/ AnalyzeQuery
    \/ Spawn
    \/ \E i \in 1..Len(Partitions) : Complete(i)
    \/ Gather
    \/ CreateArrowResponse
    \/ RunQuery
    \/ ConvertToArrowIpc
    \/ ListOfPrefixes
    \/ ScanSourceForPrefixes
    \/ Tables
    \/ Source
    \/ Bucket
    \/ ParquetFiles
    \/ Analyze
    \/ \E old \in ReplaceOld, new \in ReplaceNew : Replace(old, new)

Spec == Init /\ [][Next]_vars

\* ------------------------------------------------------------------ claims
\* the spec's error taxonomy, by the message analyze_query returns
ErrorKind(msg) ==
    CASE msg \in {"Unsupported GROUP BY expression", "GROUP BY ALL is not supported",
                  "GROUP BY clause is empty"} -> "UnsupportedGroupBy"
      [] msg = "Unsupported aggregation" -> "UnsupportedAggregation"
      [] msg \in {"Unsupported query type", "Unsupported statement type"} ->
             "UnsupportedQueryShape"
      [] OTHER -> "ParseError"

\* analyze_query has run on the query
Analysed == entry \in {"plan", "planner"} /\ plan_result.tag /= "None"

\* execute_plan has ended, by a return or by a panic
Executed == entry = "planner" /\ exec_result.tag /= "None"

AnyCallFailed == \E i \in 1..Len(tasks) : tasks[i].out.kind \in {"InvokeErr", "JoinErr"}

AllCallsSucceeded ==
    /\ Len(tasks) = Len(Partitions)
    /\ \A i \in 1..Len(tasks) : tasks[i].out.kind = "Ok"

\* C1: if a dispatched call ended in an invocation error or a task-join
\* error, execute_plan returns a failure, and no merged result is returned
\* or encoded.
C1_AllOrNothing ==
    (Executed /\ AnyCallFailed) =>
        /\ exec_result.tag = "Err"
        /\ response.tag /= "Ok"

\* The part of C1 the code keeps: with a failed call no merged result is
\* returned and none is encoded.
C1_NoMergedResult == AnyCallFailed => (exec_result.tag /= "Ok" /\ response.tag /= "Ok")

\* the entries partition i's call returned: those of its JSON object
EntryCount(i) ==
    IF tasks[i].out.payload.kind = "Object"
    THEN Cardinality(DOMAIN tasks[i].out.payload.obj) ELSE 0

RECURSIVE SumEntryCounts(_)
SumEntryCounts(n) == IF n = 0 THEN 0 ELSE EntryCount(n) + SumEntryCounts(n - 1)

\* C2: a merged result that execute_plan returns has as many rows as the
\* partial results have entries in all, and each (key, value) row as often
\* as there are partitions that returned that key with that value: a key
\* two partitions return stays two rows.
C2_NoReaggregation ==
    (Executed /\ exec_result.tag = "Ok") =>
        /\ AllCallsSucceeded
        /\ Len(exec_result.rows) = SumEntryCounts(Len(tasks))
        /\ \A k \in 1..MaxKeys, v \in 1..MaxValue :
             Cardinality({r \in 1..Len(exec_result.rows) : exec_result.rows[r] = <<k, v>>})
               = Cardinality({i \in 1..Len(tasks) :
                     /\ tasks[i].out.payload.kind = "Object"
                     /\ k \in DOMAIN tasks[i].out.payload.obj
                     /\ tasks[i].out.payload.obj[k] = v})

\* two partitions returned the same key with different values, and the
\* merged result was returned
C2_Witness ==
    /\ Executed /\ exec_result.tag = "Ok"
    /\ \E i, j \in 1..Len(tasks) : \E k \in 1..MaxKeys :
         /\ i /= j
         /\ tasks[i].out.payload.kind = "Object" /\ k \in DOMAIN tasks[i].out.payload.obj
         /\ tasks[j].out.payload.kind = "Object" /\ k \in DOMAIN tasks[j].out.payload.obj
         /\ tasks[i].out.payload.obj[k] /= tasks[j].out.payload.obj[k]

\* the (key, value) entries of the partial result of the partition labelled p
EntriesOf(p) ==
    LET i == CHOOSE n \in 1..Len(tasks) : tasks[n].partition = p
        o == tasks[i].out.payload
    IN  IF o.kind = "Object"
        THEN LET ks == SortedKeys(DOMAIN o.obj)
             IN  [n \in 1..Len(ks) |-> <<ks[n], o.obj[ks[n]]>>]
        ELSE << >>

\* the partial results one after the other, partition by partition in the order given
RECURSIVE ConcatInOrder(_)
ConcatInOrder(order) ==
    IF order = << >> THEN << >>
    ELSE EntriesOf(Head(order)) \o ConcatInOrder(Tail(order))

\* C3 as it stands: a merged result holds the partial results in the order
\* in which the calls completed.
C3_CompletionOrder ==
    (Executed /\ exec_result.tag = "Ok") => exec_result.rows = ConcatInOrder(completed)

\* C3 amended: a merged result holds the partial results in the order in
\* which the partitions were dispatched, whatever the order in which the
\* calls completed.
C3_DispatchOrder ==
    (Executed /\ exec_result.tag = "Ok") => exec_result.rows = ConcatInOrder(Partitions)

\* the calls completed in another order than they were dispatched in, and
\* that order would have given another merged result
C3_Witness ==
    /\ Executed /\ exec_result.tag = "Ok"
    /\ completed /= Partitions
    /\ ConcatInOrder(completed) /= ConcatInOrder(Partitions)

\* C4: a SELECT whose FROM clause lists no relation, or two or more, makes
\* analyze_query fail with UnsupportedQueryShape.
C4_OneFromRelation ==
    (Analysed /\ query.kind = "Select" /\ Len(query.from) /= 1) =>
        /\ plan_result.tag = "Err"
        /\ ErrorKind(plan_result.err) = "UnsupportedQueryShape"

\* GROUP BY ALL, no GROUP BY list, or a list whose first expression is no
\* bare column identifier
UnsupportedGroupBy(group_by) ==
    \/ group_by.kind = "All"
    \/ group_by.exprs = << >>
    \/ group_by.exprs[1].kind /= "Identifier"

\* C5: a SELECT with an unsupported GROUP BY makes analyze_query fail with
\* an UnsupportedGroupBy error, also when its aggregation is unsupported too.
C5_GroupByRejected ==
    (Analysed /\ query.kind = "Select" /\ UnsupportedGroupBy(query.group_by)) =>
        /\ plan_result.tag = "Err"
        /\ ErrorKind(plan_result.err) = "UnsupportedGroupBy"

\* The part of C5 the code keeps: the same, for a SELECT with a FROM clause.
C5_GroupByRejectedWithFrom ==
    (Analysed /\ query.kind = "Select" /\ query.from /= << >>
        /\ UnsupportedGroupBy(query.group_by)) =>
        /\ plan_result.tag = "Err"
        /\ ErrorKind(plan_result.err) = "UnsupportedGroupBy"

\* C6 as it stands: analyze_query returns a plan only for a query with
\* exactly one GROUP BY expression and exactly one projection item.
C6_ExactlyOne ==
    (Analysed /\ plan_result.tag = "Ok") =>
        /\ query.group_by.kind = "Expressions" /\ Len(query.group_by.exprs) = 1
        /\ Len(query.projection) = 1

\* C6 amended: analyze_query returns a plan only for a SELECT whose first
\* GROUP BY expression is a bare column identifier and whose first
\* projection item is an unnamed function call; the plan holds that one
\* column and that one function, and what follows them in the query is
\* not looked at.
C6_FirstOnly ==
    (Analysed /\ plan_result.tag = "Ok") =>
        /\ query.kind = "Select"
        /\ query.from /= << >>
        /\ query.group_by.kind = "Expressions"
        /\ query.group_by.exprs /= << >>
        /\ query.group_by.exprs[1].kind = "Identifier"
        /\ query.projection[1].item = "UnnamedExpr"
        /\ query.projection[1].expr = "Function"
        /\ plan_result.plan.table = query.from[1].relation
        /\ plan_result.plan.group_column = query.group_by.exprs[1].value
        /\ plan_result.plan.agg_function = query.projection[1].name
        /\ plan_result.plan.partitions = Partitions

\* a plan was returned for a query with two GROUP BY expressions, the second
\* no identifier, and two projection items, the second no function call
C6_Witness ==
    /\ Analysed /\ plan_result.tag = "Ok"
    /\ Len(query.group_by.exprs) = 2 /\ query.group_by.exprs[2].kind /= "Identifier"
    /\ Len(query.projection) = 2 /\ query.projection[2].expr /= "Function"

\* the first list_of_prefixes call that returned a list, or 0
FirstListed ==
    IF \E n \in 1..Len(lop_calls) : lop_calls[n].tag = "Ok"
    THEN CHOOSE n \in 1..Len(lop_calls) :
             /\ lop_calls[n].tag = "Ok"
             /\ \A m \in 1..(n - 1) : lop_calls[m].tag /= "Ok"
    ELSE 0

\* C7 as it stands: over the list_of_prefixes calls on one QueryWrapper the
\* listing query runs at most once, and every call after the first returns
\* what the first returned.
C7_ProbedAtMostOnce ==
    /\ lop_probes <= 1
    /\ \A n \in 2..Len(lop_calls) : lop_calls[n] = lop_calls[1]

\* C7 amended: a call that fails caches nothing, and the next call probes
\* again; from the first call that returns a list on, every call returns
\* that list, the cached one, and runs no listing query.
C7_CachedOnceListed ==
    entry = "parser" =>
        /\ lop_probes <= Len(lop_calls)
        /\ FirstListed = 0 => list_of_prefixes = None
        /\ FirstListed > 0 =>
             /\ lop_probes <= FirstListed
             /\ list_of_prefixes = Some(lop_calls[FirstListed].value)
             /\ \A m \in FirstListed..Len(lop_calls) : lop_calls[m] = lop_calls[FirstListed]

\* a first call whose listing query failed, a second whose listing query
\* showed a directory, and a third served from the cache
C7_Witness ==
    /\ entry = "parser"
    /\ Len(lop_calls) = 3
    /\ lop_calls[1].tag = "Err"
    /\ lop_probes = 2
    /\ FirstListed = 2
    /\ lop_calls[2].value /= << >>
    /\ ret = lop_calls[3]

\* C8: an empty merged result is encoded all the same: the response is a
\* success whose body is the schema of category (non-null string) and
\* count (non-null 64-bit integer), one record batch without rows, and the
\* end-of-stream marker.
C8_EmptyResultEncoded ==
    (Executed /\ exec_result.tag = "Ok" /\ exec_result.rows = << >> /\ pc /= "Merged") =>
        /\ pc = "Responded"
        /\ response.tag = "Ok"
        /\ response.status_code = 200
        /\ response.body =
             << [msg |-> "schema", rows |-> << >>,
                 fields |-> << [name |-> "category", type |-> "Utf8", nullable |-> FALSE],
                               [name |-> "count", type |-> "Int64", nullable |-> FALSE] >>],
                [msg |-> "batch", rows |-> << >>,
                 fields |-> << [name |-> "category", type |-> "Utf8", nullable |-> FALSE],
                               [name |-> "count", type |-> "Int64", nullable |-> FALSE] >>],
                [msg |-> "eos", rows |-> << >>, fields |-> << >>] >>

\* every call succeeded with an empty object or without a payload, some
\* with the one and some with the other, and the response was made
C8_Witness ==
    /\ Executed /\ exec_result.tag = "Ok" /\ exec_result.rows = << >>
    /\ pc = "Responded"
    /\ \E i, j \in 1..Len(tasks) :
         /\ tasks[i].out.payload.kind = "None"
         /\ tasks[j].out.payload.kind = "Object"

\* a schema header, n record batches, an end-of-stream marker
BodyShape(body, n) ==
    /\ Len(body) = n + 2
    /\ body[1].msg = "schema"
    /\ \A i \in 2..(n + 1) : body[i].msg = "batch"
    /\ body[n + 2].msg = "eos"

\* C9 as it stands: the body of every success response, of either entry
\* point, is one schema header, one record batch, one end-of-stream marker.
C9_OneBatch == response.tag = "Ok" => BodyShape(response.body, 1)

\* C9 amended: the body of every success response is one schema header,
\* then the record batches, then one end-of-stream marker: one record batch
\* holding every row of the merged result for the distributed entry point,
\* and for the single-node entry point one record batch for each batch the
\* engine returned, which is at least one; with no batch from the engine
\* the single-node handler panics and makes no success response.
C9_BatchPerEngineBatch ==
    /\ (entry = "planner" /\ response.tag = "Ok") =>
          /\ BodyShape(response.body, 1)
          /\ Len(response.body[2].rows) = Len(exec_result.rows)
    /\ (entry = "duckling" /\ response.tag = "Ok") =>
          /\ rbs /= << >>
          /\ BodyShape(response.body, Len(rbs))
          /\ \A i \in 1..Len(rbs) : response.body[i + 1].rows = rbs[i].rows
    /\ (entry = "duckling" /\ pc \notin {"Received", "Queried"} /\ rbs = << >>) =>
          response.tag /= "Ok"

\* the single-node handler responded to a query for which the engine
\* returned two batches, one of them without rows
C9_Witness ==
    /\ entry = "duckling"
    /\ response.tag = "Ok"
    /\ Len(rbs) = 2
    /\ rbs[1].rows = << >>
    /\ rbs[2].rows /= << >>

\* the table references ahead of the i-th FROM item
RECURSIVE TablesBefore(_, _)
TablesBefore(from, i) ==
    IF i <= 1 THEN 0
    ELSE TablesBefore(from, i - 1) + 1 + Len(from[i - 1].joins)

\* C10: tables() of a SELECT gives, FROM item by FROM item in source order,
\* the item's relation and then its joined relations in their order: one
\* table for a single relation, two for a two-way join, the FROM relation
\* ahead of the joined one.
C10_TablesInSourceOrder ==
    (entry = "parser" /\ ret.op = "tables" /\ ast.kind = "Select") =>
        /\ Len(ret.value) = TablesBefore(ast.from, Len(ast.from) + 1)
        /\ \A i \in 1..Len(ast.from) :
             /\ ret.value[TablesBefore(ast.from, i) + 1] = ast.from[i].relation
             /\ \A j \in 1..Len(ast.from[i].joins) :
                  ret.value[TablesBefore(ast.from, i) + 1 + j] = ast.from[i].joins[j].relation
        /\ (Len(ast.from) = 1 /\ ast.from[1].joins = << >>) => Len(ret.value) = 1
        /\ (Len(ast.from) = 1 /\ Len(ast.from[1].joins) = 1) =>
             ret.value = <<ast.from[1].relation, ast.from[1].joins[1].relation>>

\* tables() was called on a SELECT of two FROM items, each with a joined
\* relation other than its own
C10_Witness ==
    /\ entry = "parser" /\ ret.op = "tables" /\ ast.kind = "Select"
    /\ Len(ast.from) = 2
    /\ \A i \in 1..2 :
         /\ Len(ast.from[i].joins) = 1
         /\ ast.from[i].joins[1].relation /= ast.from[i].relation
    /\ ast.from[1].relation /= ast.from[2].relation


\* whether a table reference's text holds a storage URI of the s3 scheme
HoldsUri(text) == \E i \in 1..(Len(text) - 2) : text[i] = "s3" /\ text[i + 1] = "://"

\* where the first storage URI of a text begins
UriAt(text) == CHOOSE i \in 1..(Len(text) - 2) :
                   /\ text[i] = "s3" /\ text[i + 1] = "://"
                   /\ \A j \in 1..(i - 1) : ~(text[j] = "s3" /\ text[j + 1] = "://")

\* the container segment of a URI: what stands between :// and the next /
\* (or the end of the quoted text)
RECURSIVE ContainerSegment(_, _)
ContainerSegment(text, j) ==
    IF j > Len(text) \/ text[j] \in {"/", "/*.", "'", "')", " "} THEN << >>
    ELSE <<text[j]>> \o ContainerSegment(text, j + 1)

\* the first table reference, in tables() order, whose text holds a URI
FirstUriTable(ts) == CHOOSE k \in 1..Len(ts) :
                         /\ HoldsUri(to_string(ts[k]))
                         /\ \A j \in 1..(k - 1) : ~HoldsUri(to_string(ts[j]))

\* what C11 says bucket() returns
BucketClaimed(ts) ==
    IF \E k \in 1..Len(ts) : HoldsUri(to_string(ts[k]))
    THEN LET text == to_string(ts[FirstUriTable(ts)])
         IN  Ret("bucket", "Ok", <<"s3://">> \o ContainerSegment(text, UriAt(text) + 2))
    ELSE Ret("bucket", "Err",
             <<"Invalid filesystem: Not able to locate any bucket name in query">>)

\* C11: bucket() returns s3:// plus the container segment of the first table
\* reference, in tables() order, whose text holds a storage URI, and fails with
\* InvalidFilesystem when no table reference holds one.
C11_BucketOfFirstUri ==
    (entry = "bucket" /\ ret.op = "bucket") => ret = BucketClaimed(tables(ast))

\* the container segment of every URI among the table references is one run
\* of letters, digits, _ and -
ContainersInClass(ts) ==
    \A k \in 1..Len(ts) :
        HoldsUri(to_string(ts[k])) =>
            Len(ContainerSegment(to_string(ts[k]), UriAt(to_string(ts[k])) + 2)) = 1

\* C11, for bucket names made of letters, digits, _ and - only: the first
\* reference's bucket wins, and without a URI the call fails.
C11_BucketOfFirstUriInClass ==
    (entry = "bucket" /\ ret.op = "bucket" /\ ContainersInClass(tables(ast)))
        => ret = BucketClaimed(tables(ast))

\* bucket() was called on a query of two references with different buckets
C11_TwoBuckets ==
    /\ entry = "bucket" /\ ret.op = "bucket" /\ ret.tag = "Ok"
    /\ Len(tables(ast)) = 2
    /\ ContainersInClass(tables(ast))
    /\ HoldsUri(to_string(tables(ast)[2]))
    /\ bucket(Statement("Select", <<TableWithJoins(tables(ast)[2], << >>)>>, NoGroupBy, << >>))
           /= bucket(ast)


\* a plan with its table, group column, aggregation function and partition
\* list all set
FullyPopulated(plan) ==
    /\ plan.table /= ""
    /\ plan.group_column /= ""
    /\ plan.agg_function /= ""
    /\ plan.partitions = Partitions

\* C12: for every input text analyze_query ends by returning a fully populated
\* plan or a typed error; it never ends abnormally and never returns a plan
\* that is populated in part.
C12_TotalAndAtomic ==
    Analysed =>
        /\ plan_result.tag \in {"Ok", "Err"}
        /\ plan_result.tag = "Ok" => FullyPopulated(plan_result.plan)
        /\ plan_result.tag = "Err" => plan_result.plan = DefaultPlan

\* C12, its atomic half: whatever way analyze_query ends, a plan is returned
\* only fully populated.
C12_NoPartialPlan ==
    Analysed =>
        IF plan_result.tag = "Ok" THEN FullyPopulated(plan_result.plan)
        ELSE plan_result.plan = DefaultPlan


\* the partition labels of the calls issued so far, in the order of issue
Issued == [i \in 1..Len(tasks) |-> tasks[i].partition]

\* execute_plan stands at join_all(tasks).await, or is past it
Awaiting == entry = "planner" /\ (pc = "Gathering" \/ exec_result.tag /= "None")

\* C13: no worker call is issued unless plan building succeeded; the calls
\* issued are one for each partition label of the plan, each label once, all of
\* them issued before any is awaited; after that no call is issued any more,
\* whatever failed.
C13_OneCallPerPartition ==
    /\ [](entry = "planner" =>
            /\ tasks /= << >> => plan_result.tag = "Ok"
            /\ plan_result.tag = "Ok" =>
                   /\ Len(tasks) <= Len(plan_result.plan.partitions)
                   /\ \A i \in 1..Len(tasks) : Issued[i] = plan_result.plan.partitions[i]
            /\ \A i, j \in 1..Len(tasks) : i /= j => Issued[i] /= Issued[j]
            /\ Awaiting => Issued = plan_result.plan.partitions)
    /\ [][Awaiting => Issued' = Issued]_vars

\* every call was issued, one of them failed and execute_plan has returned
C13_Witness ==
    /\ Executed /\ exec_result.tag = "Err"
    /\ AnyCallFailed
    /\ Issued = Partitions

\* C14: execute_plan returns, with a merged result or a failure, only after
\* every dispatched call has completed; a failed call leaves the calls in
\* flight in flight, and each of them ends with an outcome of its own.
C14_GatherWaitsForAll ==
    /\ [](Executed => /\ \A i \in 1..Len(tasks) : tasks[i].out /= Pending
                      /\ Len(completed) = Len(tasks))
    /\ [][\A i \in 1..Len(tasks) :
              tasks[i].out = Pending =>
                  /\ Len(tasks') >= i
                  /\ tasks'[i].partition = tasks[i].partition
                  /\ tasks'[i].out \in Outcomes \cup {Pending}]_vars

\* execute_plan returned a failure, and a call had failed before another
\* call completed
C14_Witness ==
    /\ Executed /\ exec_result.tag = "Err"
    /\ Len(completed) = Len(Partitions)
    /\ \E i, j \in 1..Len(tasks) :
          /\ tasks[i].partition = completed[1]
          /\ tasks[i].out.kind = "InvokeErr"
          /\ tasks[j].partition = completed[Len(completed)]
          /\ tasks[j].out.kind = "Ok"


\* the statement parse builds from the text whose hash the analyzer holds
ParsedAst == parse_sql(Tail(hashed))

\* what a method that reads the analyzer returns for the statement a
ResultOn(op, a) ==
    CASE op = "tables" -> Ret(op, "Ok", tables(a))
      [] op = "bucket" -> Ret(op, IF bucket(a).ok THEN "Ok" ELSE "Err", bucket(a).value)
      [] op = "source" -> Ret(op, IF source(a).ok THEN "Ok" ELSE "Err", <<source(a).value>>)
      [] op = "parquet_files" -> Ret(op, "Ok", parquet_files(a))
      [] OTHER -> Ret(op, "Ok", analyze(a))

\* C15: a replace call changes the held text and nothing else of the
\* analyzer: fingerprint, AST and memoized prefix list stay as they were, the
\* fingerprint stays the hash of the text parse was given, and tables(),
\* bucket(), source(), parquet_files() and analyze() return what they return
\* for the statement parsed from that text.
C15_ReplaceChangesTextOnly ==
    /\ [](entry = "parser" =>
            /\ hashed = create_hash_string(unify_query(query_text(ParsedAst)))
            /\ ast = ParsedAst
            /\ ret.op \in {"tables", "bucket", "source", "parquet_files", "analyze"}
                   => ret = ResultOn(ret.op, ParsedAst))
    /\ [][replaced' /= replaced =>
              /\ hashed' = hashed
              /\ ast' = ast
              /\ list_of_prefixes' = list_of_prefixes]_vars

\* replace has changed the text of an analyzer that holds a memoized prefix
\* list, and bucket() was called after it
C15_Witness ==
    /\ entry = "parser"
    /\ replaced > 0
    /\ sql /= unify_query(query_text(ast))
    /\ list_of_prefixes /= None
    /\ ret.op = "bucket" /\ ret.tag = "Ok"

=============================================================================
